---- MODULE Spec2Model ----
(***************************************************************************)
(* Model of the Taipei hex-grid / road-risk backend:                       *)
(*   src/router/map.py                 request handlers and module caches  *)
(*   src/functions/mapData_proccess.py grid rebuild (TaipeiDataManager)    *)
(*                                                                         *)
(* Encodings.  Python None is the empty tuple and a present value x is the *)
(* one-element tuple <<x>>.  Latitudes and longitudes are integers in      *)
(* units of 1e-5 degree.  Cell values (combined_value) are integers in     *)
(* hundredths, the granularity the grid artifact stores them with; an      *)
(* average is the exact fraction [num, den].  The risk level 'unknown' is  *)
(* the integer unknown, the numbered levels are 1..5.  A Python dict is a  *)
(* function on its keys.                                                   *)
(***************************************************************************)
EXTENDS Integers, Sequences, FiniteSets, TLC

VARIABLES
    _road_risk_cache,       \* map.py:14  None or <<result_dict>>
    _road_risk_cache_time,  \* map.py:15  None or <<timestamp>>
    _hexgrid_cache,         \* map.py:16  None or <<h3_map>>
    _roads_cache,           \* map.py:17  None or <<roads>>
    hexgrid_file,           \* dataStore/hexgrid_data.json
    roads_file,             \* dataStore/taipei_roads.json
    pc,                     \* position of each request slot
    req,                    \* parameters and locals of the request in each slot
    answer,                 \* the answer the last step sent (op "none": it sent none)
    job,                    \* grid rebuild run by each worker thread
    fresh,                  \* no analyze_road_risk call has started since the last clear
    fn                      \* input and result of the pure-function specifications

vars == <<_road_risk_cache, _road_risk_cache_time, _hexgrid_cache, _roads_cache,
          hexgrid_file, roads_file, pc, req, answer, job, fresh, fn>>

cacheVars == <<_road_risk_cache, _road_risk_cache_time, _hexgrid_cache, _roads_cache>>

None == <<>>
Some(x) == <<x>>

(***************************************************************************)
(* Bounds of the model.                                                    *)
(***************************************************************************)
NumReq == 2         \* request slots that can be in flight together
MaxPoints == 21     \* longest road geometry the sampling is applied to
MaxRoads == 2       \* longest road list the classifier is applied to
MaxDen == 3         \* most points an averaged value is taken over
ProbeStep == 2000   \* distance between probe points of the grid coverage, 1e-5 degree
ProbeMargin == 50   \* distance of the outermost probe points from the rectangle's sides

Req == 1..NumReq
BgWorker == 0       \* the thread that runs BackgroundTasks
Worker == 0..NumReq \* worker w > 0 is the executor thread of request slot w

(***************************************************************************)
(* H3 at resolution 10, modelled on the plane: cells are the Voronoi       *)
(* cells of a triangular lattice of centres, a cell index is its axial     *)
(* coordinate <<q, r>>.  Centres are CellSpacing metres apart.             *)
(***************************************************************************)
MetresPerLat == 111     \* metres per 1e-3 degree of latitude
MetresPerLng == 101     \* metres per 1e-3 degree of longitude at 25 N
HalfSpacing == 66       \* half the distance between neighbouring centres, metres
RowHeight == 114        \* distance between rows of centres, metres (66 * sqrt 3)

Sq(x) == x * x
Abs(x) == IF x < 0 THEN -x ELSE x
Min2(a, b) == IF a <= b THEN a ELSE b
Max2(a, b) == IF a >= b THEN a ELSE b

PlaneY(lat) == (lat * MetresPerLat) \div 100
PlaneX(lng) == (lng * MetresPerLng) \div 100
CentreX(cell) == HalfSpacing * (2 * cell[1] + cell[2])
CentreY(cell) == RowHeight * cell[2]

\* h3.latlng_to_cell(lat, lng, 10): the cell whose centre is nearest.
latlng_to_cell(lat, lng) ==
    LET x == PlaneX(lng)
        y == PlaneY(lat)
        r0 == y \div RowHeight
        q0(r) == (x - HalfSpacing * r) \div (2 * HalfSpacing)
        cand == {<<q0(r0), r0>>, <<q0(r0) + 1, r0>>,
                 <<q0(r0 + 1), r0 + 1>>, <<q0(r0 + 1) + 1, r0 + 1>>}
        d2(c) == Sq(x - CentreX(c)) + Sq(y - CentreY(c))
        best == {c \in cand : \A o \in cand : d2(c) <= d2(o)}
    IN  CHOOSE c \in best : \A o \in best : c[2] < o[2] \/ (c[2] = o[2] /\ c[1] <= o[1])

\* h3.cell_to_latlng(cell): the centre of the cell.
cell_to_latlng(cell) ==
    [lat |-> (CentreY(cell) * 100) \div MetresPerLat,
     lng |-> (CentreX(cell) * 100) \div MetresPerLng]

\* h3.grid_distance: steps between two cells.
grid_distance(a, b) ==
    LET dq == a[1] - b[1]
        dr == a[2] - b[2]
    IN  (Abs(dq) + Abs(dr) + Abs(dq + dr)) \div 2

(***************************************************************************)
(* Road risk classification (map.py:144-275).                              *)
(***************************************************************************)
unknown == 0                \* the level 'unknown'
UnnamedRoad == "unnamed"    \* the sentinel road name of map.py:219

Levels == 1..5

\* value < threshold, for value = num/den in hundredths and threshold in tenths
LessThan(value, tenths) == value.num < tenths * 10 * value.den

\* value <= threshold
AtMost(value, tenths) == value.num <= tenths * 10 * value.den

\* bands closed at the upper end: a value at a threshold stays in the lower band
risk_level_upper_closed(value) ==
    IF value = None
    THEN [level |-> unknown, level_name |-> "unknown"]
    ELSE IF AtMost(value[1], 108) THEN [level |-> 1, level_name |-> "very low"]
    ELSE IF AtMost(value[1], 125) THEN [level |-> 2, level_name |-> "low"]
    ELSE IF AtMost(value[1], 144) THEN [level |-> 3, level_name |-> "medium"]
    ELSE IF AtMost(value[1], 162) THEN [level |-> 4, level_name |-> "high"]
    ELSE [level |-> 5, level_name |-> "very high"]

_get_risk_level(value) ==
    IF value = None
    THEN [level |-> unknown, level_name |-> "unknown"]
    ELSE IF LessThan(value[1], 108) THEN [level |-> 1, level_name |-> "very low"]
    ELSE IF LessThan(value[1], 125) THEN [level |-> 2, level_name |-> "low"]
    ELSE IF LessThan(value[1], 144) THEN [level |-> 3, level_name |-> "medium"]
    ELSE IF LessThan(value[1], 162) THEN [level |-> 4, level_name |-> "high"]
    ELSE [level |-> 5, level_name |-> "very high"]

\* a stride rounded up, which keeps the samples at 10 or fewer
sample_interval_ceil(n) == Max2(1, (n + 9) \div 10)

\* sample_interval of map.py:149-150
sample_interval(n) == Max2(1, n \div Min2(10, n))

\* range(0, len(geometry), sample_interval), as 0-based indices in order
RECURSIVE Range(_, _, _)
Range(start, stop, step) ==
    IF start >= stop THEN <<>> ELSE <<start>> \o Range(start + step, stop, step)

sampled_indices(n) == Range(0, n, sample_interval(n))

\* a loop that counts every sampled point, resolved or not
RECURSIVE sample_loop_counts_all(_, _, _, _, _)
sample_loop_counts_all(geometry, h3_map, idx, total_value, valid_points) ==
    IF idx = <<>>
    THEN IF valid_points > 0
         THEN Some([num |-> total_value, den |-> valid_points])
         ELSE None
    ELSE LET point == geometry[Head(idx) + 1]
             h3_index == latlng_to_cell(point.lat, point.lng)
         IN  IF h3_index \in DOMAIN h3_map
             THEN sample_loop_counts_all(geometry, h3_map, Tail(idx),
                                         total_value + h3_map[h3_index], valid_points + 1)
             ELSE sample_loop_counts_all(geometry, h3_map, Tail(idx),
                                         total_value, valid_points + 1)

RECURSIVE SampleLoop(_, _, _, _, _)
SampleLoop(geometry, h3_map, idx, total_value, valid_points) ==
    IF idx = <<>>
    THEN IF valid_points > 0
         THEN Some([num |-> total_value, den |-> valid_points])
         ELSE None
    ELSE LET point == geometry[Head(idx) + 1]
             h3_index == latlng_to_cell(point.lat, point.lng)
         IN  IF h3_index \in DOMAIN h3_map
             THEN SampleLoop(geometry, h3_map, Tail(idx),
                             total_value + h3_map[h3_index], valid_points + 1)
             ELSE SampleLoop(geometry, h3_map, Tail(idx), total_value, valid_points)

_calculate_road_value(geometry, h3_map) ==
    SampleLoop(geometry, h3_map, sampled_indices(Len(geometry)), 0, 0)

\* the roads the loop of map.py:217-225 does not skip
road_name(road) == IF "name" \in DOMAIN road THEN road.name ELSE UnnamedRoad

\* a loop that skips for the geometry alone, not for the name
road_skipped_for_geometry(road) ==
    \/ "geometry" \notin DOMAIN road
    \/ road.geometry = <<>>

road_skipped(road) ==
    \/ road_name(road) = UnnamedRoad
    \/ "geometry" \notin DOMAIN road
    \/ road.geometry = <<>>

\* round(combined_value, 2) of map.py:239, in hundredths.  At a tie (x.xx5) the double
\* the division produced decides; for the averages of two of the model's cell values
\* (10.795, 11.645, 13.495) it lies below the tie and the value is rounded down.
round_value(value) == (2 * value.num + value.den - 1) \div (2 * value.den)

road_info(road, h3_map) ==
    LET combined_value == _calculate_road_value(road.geometry, h3_map)
        risk_info == _get_risk_level(combined_value)
    IN  [id |-> road.id,
         name |-> road_name(road),
         combined_value |-> IF combined_value # None
                            THEN Some(round_value(combined_value[1]))
                            ELSE None,
         risk_level |-> risk_info.level,
         risk_level_name |-> risk_info.level_name,
         start_point |-> road.geometry[1],
         end_point |-> road.geometry[Len(road.geometry)],
         geometry_point_count |-> Len(road.geometry)]

RECURSIVE AnalyzeLoop(_, _, _, _)
AnalyzeLoop(h3_map, roads, analyzed_roads, stats) ==
    IF roads = <<>>
    THEN [analyzed_roads |-> analyzed_roads, stats |-> stats]
    ELSE IF road_skipped(Head(roads))
    THEN AnalyzeLoop(h3_map, Tail(roads), analyzed_roads, stats)
    ELSE LET info == road_info(Head(roads), h3_map)
         IN  AnalyzeLoop(h3_map, Tail(roads), Append(analyzed_roads, info),
                         [stats EXCEPT ![info.risk_level] = @ + 1])

_analyze_roads_task(h3_map, roads) ==
    AnalyzeLoop(h3_map, roads, <<>>, [l \in Levels \cup {unknown} |-> 0])

level_key(level) ==
    CASE level = 1 -> "level_1"
      [] level = 2 -> "level_2"
      [] level = 3 -> "level_3"
      [] level = 4 -> "level_4"
      [] level = 5 -> "level_5"

LevelKeys == {level_key(l) : l \in Levels}

RECURSIVE Simplify(_)
Simplify(level_roads) ==
    IF level_roads = <<>> THEN <<>>
    ELSE <<[name |-> Head(level_roads).name,
            start |-> Head(level_roads).start_point,
            end |-> Head(level_roads).end_point]>> \o Simplify(Tail(level_roads))

\* buckets whose lowest level also takes the roads of level 'unknown'
level_bucket_keeps_unknown(analyzed_roads, level) ==
    LET keep(r) == (r.risk_level = level \/ (level = 1 /\ r.risk_level = unknown))
                   /\ r.name # UnnamedRoad
        level_roads == SelectSeq(analyzed_roads, keep)
    IN  [risk_level |-> level,
         risk_level_name |-> IF level_roads # <<>> THEN level_roads[1].risk_level_name ELSE "",
         count |-> Len(level_roads),
         roads |-> Simplify(level_roads)]

level_bucket(analyzed_roads, level) ==
    LET keep(r) == r.risk_level = level /\ r.name # UnnamedRoad
        level_roads == SelectSeq(analyzed_roads, keep)
    IN  [risk_level |-> level,
         risk_level_name |-> IF level_roads # <<>> THEN level_roads[1].risk_level_name ELSE "",
         count |-> Len(level_roads),
         roads |-> Simplify(level_roads)]

_prepare_result_dict(analyzed_roads, stats) ==
    [k \in LevelKeys |->
        level_bucket(analyzed_roads, CHOOSE l \in Levels : level_key(l) = k)]

(***************************************************************************)
(* Data the requests of the cache specification work on.                   *)
(***************************************************************************)
\* mapData_proccess.py:258-263
taipei_bounds ==
    [min_lat |-> 2495000, max_lat |-> 2520000, min_lng |-> 12140000, max_lng |-> 12170000]

center_lat == (taipei_bounds.min_lat + taipei_bounds.max_lat) \div 2    \* :266
center_lng == (taipei_bounds.min_lng + taipei_bounds.max_lng) \div 2    \* :267
center_hex == latlng_to_cell(center_lat, center_lng)                    \* :268
radius == 100                                                           \* :271-274

\* hex_id is in taipei_hexagons (mapData_proccess.py:280-289): it is in
\* h3.grid_disk(center_hex, radius) and its centre lies in the rectangle
in_taipei_hexagons(hex_id) ==
    LET c == cell_to_latlng(hex_id)
    IN  /\ grid_distance(center_hex, hex_id) <= radius
        /\ taipei_bounds.min_lat <= c.lat /\ c.lat <= taipei_bounds.max_lat
        /\ taipei_bounds.min_lng <= c.lng /\ c.lng <= taipei_bounds.max_lng

PointA == [lat |-> center_lat, lng |-> center_lng]
PointB == [lat |-> center_lat, lng |-> center_lng + 200]
PointOff == [lat |-> 2400000, lng |-> center_lng]
CellA == latlng_to_cell(PointA.lat, PointA.lng)
CellB == latlng_to_cell(PointB.lat, PointB.lng)

\* contents a grid rebuild can leave in hexgrid_data.json (h3_index -> combined_value)
GridArtifacts ==
    {[c \in {CellA, CellB} |-> IF c = CellA THEN 1000 ELSE 1160],
     [c \in {CellA, CellB} |-> 1354]}

\* the 'roads' list of taipei_roads.json
RoadsOnDisk ==
    <<[id |-> 1, name |-> "A", type |-> "primary", geometry |-> <<PointA, PointB>>],
      [id |-> 2, name |-> UnnamedRoad, type |-> "service", geometry |-> <<PointA>>],
      [id |-> 3, name |-> "C", type |-> "primary", geometry |-> <<PointOff>>]>>

NoHexagons == [c \in {} |-> 0]
AbsentFile == [state |-> "absent", hexagons |-> NoHexagons, torn |-> FALSE]
CompleteFile(h) == [state |-> "complete", hexagons |-> h, torn |-> FALSE]

\* values of the risk_level query parameter the model sends
LevelInputs == {None, Some(0), Some(3), Some(6)}

NoReq == [op |-> "none", risk_level |-> None, h3_map |-> NoHexagons, roads |-> <<>>]
NoAnswer == [status |-> 0, cached |-> FALSE, data |-> None, statistics |-> None]
NoJob == [st |-> "none", result |-> NoHexagons]

(***************************************************************************)
(* The grid rebuild, TaipeiDataManager.update_hexgrid_data                 *)
(* (mapData_proccess.py:189-382), and the weather parser it calls          *)
(* (mapData_proccess.py:65-172).  Heights are integers in tenths of a      *)
(* metre, wind speeds in tenths of a metre per second, TWD97 coordinates   *)
(* in metres.                                                              *)
(***************************************************************************)
MaxBuildings == 2   \* longest building table the rebuild is applied to
MaxStations == 2    \* longest station list the weather API returns

\* float(text) of mapData_proccess.py:127: None stands for ValueError
float(text) ==
    CASE text = "0.0" -> Some(0)
      [] text = "3.5" -> Some(35)
      [] text = "12.0" -> Some(120)
      [] text = "-99.0" -> Some(-990)
      [] text = "-99" -> Some(-990)
      [] text = "-998" -> Some(-9980)
      [] text = "-999" -> Some(-9990)
      [] OTHER -> None

\* raw values of a WeatherElement key: missing, a JSON string, a JSON number
Missing == [type |-> "missing", text |-> "", number |-> 0]
Str(text) == [type |-> "str", text |-> text, number |-> 0]
Num(number) == [type |-> "num", text |-> "", number |-> number]

\* get_value (mapData_proccess.py:121-129) applied to the raw value val
get_value(val) ==
    IF val.type = "missing" THEN None
    ELSE IF val.type = "str" /\ val.text \in {"", "-99", "-998", "-999"} THEN None
    ELSE IF val.type = "str" THEN float(val.text)
    ELSE Some(val.number)

Counties == {"Taipei", "NewTaipei"}     \* the county names of mapData_proccess.py:159

\* _fetch_weather_data_from_api (mapData_proccess.py:85-165): the retained stations
RECURSIVE _fetch_weather_data_from_api(_)
_fetch_weather_data_from_api(records) ==
    IF records = <<>> THEN <<>>
    ELSE LET station == Head(records)
             station_data == [station_id |-> station.StationId,
                              latitude |-> station.lat,
                              longitude |-> station.lng,
                              wind_speed |-> get_value(station.WindSpeed)]
             rest == _fetch_weather_data_from_api(Tail(records))
         IN  IF station.lat > 0 /\ station.lng > 0 /\ station.CountyName \in Counties
             THEN <<station_data>> \o rest
             ELSE rest

\* dropna of mapData_proccess.py:218
valid_row(row) == row.e97 # None /\ row.n97 # None /\ row.height # None

\* the TWD97 -> WGS84 transform of mapData_proccess.py:221-228, linear near Taipei:
\* central meridian 121 E at easting 250000
transform(e97, n97) ==
    [lng |-> 12100000 + ((e97 - 250000) * 100) \div MetresPerLng,
     lat |-> (n97 * 100) \div MetresPerLat]

\* the 'records' list of mapData_proccess.py:204-231
RECURSIVE load_buildings(_)
load_buildings(buildings_df) ==
    IF buildings_df = <<>> THEN <<>>
    ELSE LET row == Head(buildings_df)
             rest == load_buildings(Tail(buildings_df))
         IN  IF valid_row(row)
             THEN LET coords == transform(row.e97[1], row.n97[1])
                  IN  <<[lat |-> coords.lat, lng |-> coords.lng, height |-> row.height[1]]>> \o rest
             ELSE rest

\* _haversine_distance (mapData_proccess.py:174-187), as the squared distance in the
\* plane, in square metres: it orders pairs of nearby points as the great circle does
_haversine_distance(lat1, lon1, lat2, lon2) ==
    Sq(PlaneY(lat2) - PlaneY(lat1)) + Sq(PlaneX(lon2) - PlaneX(lon1))

\* hex_stats[hex_id]['heights'] after the loop of mapData_proccess.py:304-310
RECURSIVE heights(_, _)
heights(buildings, hex_id) ==
    IF buildings = <<>> THEN <<>>
    ELSE LET building == Head(buildings)
             h3_index == latlng_to_cell(building.lat, building.lng)
             rest == heights(Tail(buildings), hex_id)
         IN  IF h3_index = hex_id THEN <<building.height>> \o rest ELSE rest

RECURSIVE max(_)
max(seq) ==
    IF Len(seq) = 1 THEN seq[1] ELSE Max2(seq[1], max(Tail(seq)))

RECURSIVE SumSeq(_)
SumSeq(seq) == IF seq = <<>> THEN 0 ELSE seq[1] + SumSeq(Tail(seq))

\* a height that adds the buildings of the cell up
sum_height(cell_heights) == IF Len(cell_heights) > 0 THEN SumSeq(cell_heights) ELSE 0

\* mapData_proccess.py:322-326
max_height(cell_heights) == IF Len(cell_heights) > 0 THEN max(cell_heights) ELSE 0

\* a loop that keeps the last of the stations at the least distance
RECURSIVE nearest_loop_last(_, _, _, _, _)
nearest_loop_last(weather_stations, lat, lng, nearest_station, min_distance) ==
    IF weather_stations = <<>> THEN nearest_station
    ELSE LET station == Head(weather_stations)
             distance == _haversine_distance(lat, lng, station.latitude, station.longitude)
         IN  IF /\ station.latitude > 0 /\ station.longitude > 0
                /\ (min_distance = None \/ distance <= min_distance[1])
             THEN nearest_loop_last(Tail(weather_stations), lat, lng, Some(station), Some(distance))
             ELSE nearest_loop_last(Tail(weather_stations), lat, lng, nearest_station, min_distance)

\* the loop of mapData_proccess.py:329-341; min_distance None is float('inf')
RECURSIVE nearest_loop(_, _, _, _, _)
nearest_loop(weather_stations, lat, lng, nearest_station, min_distance) ==
    IF weather_stations = <<>> THEN nearest_station
    ELSE LET station == Head(weather_stations)
             distance == _haversine_distance(lat, lng, station.latitude, station.longitude)
         IN  IF /\ station.latitude > 0 /\ station.longitude > 0
                /\ (min_distance = None \/ distance < min_distance[1])
             THEN nearest_loop(Tail(weather_stations), lat, lng, Some(station), Some(distance))
             ELSE nearest_loop(Tail(weather_stations), lat, lng, nearest_station, min_distance)

\* wind_speed of mapData_proccess.py:344: 0 for no station, no reading or a reading of 0
wind_speed(nearest_station) ==
    IF nearest_station # None /\ nearest_station[1].wind_speed # None
                              /\ nearest_station[1].wind_speed[1] # 0
    THEN nearest_station[1].wind_speed[1]
    ELSE 0

\* min(1 + 0.25*max(0, max_height/8 - 1), 1.6) of mapData_proccess.py:348, in 1/320
height_factor(height) == Min2(320 + Max2(0, height - 80), 512)

\* round(): the integer nearest to num/den, for den > 0
round(num, den) == (2 * num + den) \div (2 * den)

\* combined_value of mapData_proccess.py:348-353, in hundredths:
\* wind * 0.15**0.25 * factor * 1.36, where 0.15**0.25 * 1.36 = 0.846373; a is in
\* 1/3200, thousandths in 1/3200000, so the value in hundredths is thousandths/32000
combined_value(wind, height) ==
    LET a == wind * height_factor(height)
        thousandths == a * 846 + (a * 373) \div 1000
    IN  round(thousandths, 32000)

\* the entry of hex_data for the cell h3_index (mapData_proccess.py:318-354)
hex_entry(h3_index, buildings, weather_stations) ==
    LET centre == cell_to_latlng(h3_index)
        cell_heights == heights(buildings, h3_index)
        nearest_station == nearest_loop(weather_stations, centre.lat, centre.lng, None, None)
    IN  [heights |-> cell_heights,
         max_height |-> max_height(cell_heights),
         nearest_station |-> nearest_station,
         wind_speed |-> wind_speed(nearest_station),
         combined_value |-> combined_value(wind_speed(nearest_station), max_height(cell_heights))]

PointGap == [lat |-> taipei_bounds.min_lat + 50, lng |-> taipei_bounds.min_lng + 50]

\* the cells the model follows through a rebuild; hex_stats has the generated ones
TrackedCells ==
    {CellA, CellB, latlng_to_cell(PointOff.lat, PointOff.lng),
     latlng_to_cell(PointGap.lat, PointGap.lng)}

\* mapData_proccess.py:204-354 for the tracked cells
update_hexgrid_data(buildings_df, records) ==
    LET buildings == load_buildings(buildings_df)
        weather_stations == _fetch_weather_data_from_api(records)
        taipei_hexagons == {c \in TrackedCells : in_taipei_hexagons(c)}
    IN  [buildings |-> buildings,
         weather_stations |-> weather_stations,
         hex_data |-> [c \in taipei_hexagons |-> hex_entry(c, buildings, weather_stations)]]

(***************************************************************************)
(* analyze_road_risk (map.py:346-486).                                     *)
(***************************************************************************)
\* except clauses that tell no exception from another
error_status_always_500(exc) == 500

\* the except clauses of map.py:477-486
analyze_error_status(exc) == IF exc = "FileNotFoundError" THEN 404 ELSE 500

ErrorResp(status) == [NoAnswer EXCEPT !.status = status]

level_out_of_range(risk_level) == risk_level[1] < 1 \/ risk_level[1] > 5

\* the part of the handler that builds the answer (map.py:373-413, 435-475)
analyze_response(result_dict, stats, total_roads, risk_level, cached) ==
    IF risk_level # None /\ level_out_of_range(risk_level)
    THEN ErrorResp(analyze_error_status("HTTPException"))
    ELSE [status |-> 200,
          cached |-> cached,
          data |-> IF risk_level # None
                   THEN Some(result_dict[level_key(risk_level[1])])
                   ELSE Some([k \in LevelKeys |-> result_dict[k]]),
          statistics |-> Some([total_roads_analyzed |-> total_roads,
                               counts |-> stats])]

\* datetime.now() of map.py:432; no operation reads the value back
Timestamp == "now"

CacheKeys == LevelKeys \cup {"_stats", "_total_roads"}

\* a stored dict whose total counts the classified roads, not the loaded ones
cache_entry_counts_classified(result_dict, stats, roads) ==
    [k \in CacheKeys |->
        IF k = "_stats" THEN stats
        ELSE IF k = "_total_roads"
        THEN stats[1] + stats[2] + stats[3] + stats[4] + stats[5] + stats[unknown]
        ELSE result_dict[k]]

\* the dict stored at map.py:429-431
cache_entry(result_dict, stats, roads) ==
    [k \in CacheKeys |->
        IF k = "_stats" THEN stats
        ELSE IF k = "_total_roads" THEN Len(roads)
        ELSE result_dict[k]]

\* a load that reads the artifacts whether or not the source caches are populated
load_rereads_artifacts(fetch_ok) ==
    IF hexgrid_file.state = "absent" \/ (~roads_file /\ ~fetch_ok)
    THEN [exc |-> Some("FileNotFoundError"), h3_map |-> NoHexagons, roads |-> <<>>,
          read |-> FALSE, roads_file |-> roads_file]
    ELSE IF hexgrid_file.state # "complete"
    THEN [exc |-> Some("JSONDecodeError"), h3_map |-> NoHexagons, roads |-> <<>>,
          read |-> FALSE, roads_file |-> TRUE]
    ELSE [exc |-> None, h3_map |-> hexgrid_file.hexagons, roads |-> RoadsOnDisk,
          read |-> TRUE, roads_file |-> TRUE]

\* _load_road_analysis_data (map.py:90-140); fetch_ok: the Overpass fetch succeeds
_load_road_analysis_data(fetch_ok) ==
    IF _hexgrid_cache # None /\ _roads_cache # None
    THEN [exc |-> None, h3_map |-> _hexgrid_cache[1], roads |-> _roads_cache[1],
          read |-> FALSE, roads_file |-> roads_file]
    ELSE IF hexgrid_file.state = "absent"
    THEN [exc |-> Some("FileNotFoundError"), h3_map |-> NoHexagons, roads |-> <<>>,
          read |-> FALSE, roads_file |-> roads_file]
    ELSE IF ~roads_file /\ ~fetch_ok
    THEN [exc |-> Some("FileNotFoundError"), h3_map |-> NoHexagons, roads |-> <<>>,
          read |-> FALSE, roads_file |-> roads_file]
    ELSE IF hexgrid_file.state # "complete"
    THEN [exc |-> Some("JSONDecodeError"), h3_map |-> NoHexagons, roads |-> <<>>,
          read |-> FALSE, roads_file |-> TRUE]
    ELSE [exc |-> None, h3_map |-> hexgrid_file.hexagons, roads |-> RoadsOnDisk,
          read |-> TRUE, roads_file |-> TRUE]

cache_hit(use_cache) == use_cache /\ _road_risk_cache # None

\* outcomes of _fetch_roads_from_overpass, called only when the roads file is absent
FetchOutcomes == IF roads_file THEN {TRUE} ELSE BOOLEAN

NewReq(op, risk_level) == [NoReq EXCEPT !.op = op, !.risk_level = risk_level]

\* a request returns the answer a
Answered(request, a) ==
    [op |-> request.op, risk_level |-> request.risk_level,
     status |-> a.status, cached |-> a.cached, data |-> a.data,
     statistics |-> a.statistics]

\* the step sends no answer
Silent == Answered(NoReq, NoAnswer)

\* map.py:367-413: the request is answered from the cache
AnalyzeCached(r, risk_level, use_cache) ==
    /\ pc[r] = "idle"
    /\ cache_hit(use_cache)
    /\ LET c == _road_risk_cache[1]
       IN  answer' = Answered(NewReq("analyze", risk_level),
                analyze_response(c, c["_stats"], c["_total_roads"], risk_level, TRUE))
    /\ fresh' = FALSE
    /\ UNCHANGED <<cacheVars, hexgrid_file, roads_file, pc, req, job, fn>>

\* map.py:416 raises: the load fails and the except clauses answer
AnalyzeLoadError(r, risk_level, use_cache, fetch_ok) ==
    /\ pc[r] = "idle"
    /\ ~cache_hit(use_cache)
    /\ fetch_ok \in FetchOutcomes
    /\ LET ld == _load_road_analysis_data(fetch_ok)
       IN  /\ ld.exc # None
           /\ answer' = Answered(NewReq("analyze", risk_level),
                               ErrorResp(analyze_error_status(ld.exc[1])))
           /\ roads_file' = ld.roads_file
    /\ fresh' = FALSE
    /\ UNCHANGED <<cacheVars, hexgrid_file, pc, req, job, fn>>

\* map.py:416-423: the load succeeds and the analysis is handed to the executor
AnalyzeSubmit(r, risk_level, use_cache, fetch_ok) ==
    /\ pc[r] = "idle"
    /\ ~cache_hit(use_cache)
    /\ fetch_ok \in FetchOutcomes
    /\ LET ld == _load_road_analysis_data(fetch_ok)
       IN  /\ ld.exc = None
           /\ _hexgrid_cache' = Some(ld.h3_map)
           /\ _roads_cache' = Some(ld.roads)
           /\ roads_file' = ld.roads_file
           /\ req' = [req EXCEPT ![r] =
                    [NewReq("analyze", risk_level) EXCEPT
                        !.h3_map = ld.h3_map, !.roads = ld.roads]]
    /\ pc' = [pc EXCEPT ![r] = "computing"]
    /\ fresh' = FALSE
    /\ answer' = Silent
    /\ UNCHANGED <<_road_risk_cache, _road_risk_cache_time, hexgrid_file, job, fn>>

\* map.py:425-475: the executor returned; store the result and answer
AnalyzeFinish(r) ==
    /\ pc[r] = "computing"
    /\ LET out == _analyze_roads_task(req[r].h3_map, req[r].roads)
           result_dict == _prepare_result_dict(out.analyzed_roads, out.stats)
           stored == cache_entry(result_dict, out.stats, req[r].roads)
       IN  /\ _road_risk_cache' = Some(stored)
           /\ _road_risk_cache_time' = Some(Timestamp)
           /\ answer' = Answered(req[r],
                    analyze_response(stored, out.stats, Len(req[r].roads),
                                     req[r].risk_level, FALSE))
    /\ pc' = [pc EXCEPT ![r] = "idle"]
    /\ req' = [req EXCEPT ![r] = NoReq]
    /\ UNCHANGED <<_hexgrid_cache, _roads_cache, hexgrid_file, roads_file, job, fresh, fn>>

(***************************************************************************)
(* clear_road_risk_cache (map.py:488-508).                                 *)
(***************************************************************************)
\* a clear that forgets the timestamp
cleared_keeps_time == [risk |-> None, time |-> Some(Timestamp), hexgrid |-> None, roads |-> None]

\* the four assignments of map.py:500-503
cleared_caches == [risk |-> None, time |-> None, hexgrid |-> None, roads |-> None]

\* a clear that resets the risk cache alone
clear_keeps_sources(r) ==
    /\ pc[r] = "idle"
    /\ _road_risk_cache' = None
    /\ _road_risk_cache_time' = None
    /\ answer' = [Silent EXCEPT !.op = "clear", !.status = 200]
    /\ fresh' = TRUE
    /\ UNCHANGED <<_hexgrid_cache, _roads_cache, hexgrid_file, roads_file, pc, req, job, fn>>

clear_road_risk_cache(r) ==
    /\ pc[r] = "idle"
    /\ _road_risk_cache' = cleared_caches.risk
    /\ _road_risk_cache_time' = cleared_caches.time
    /\ _hexgrid_cache' = cleared_caches.hexgrid
    /\ _roads_cache' = cleared_caches.roads
    /\ answer' = Answered(NewReq("clear", None), [NoAnswer EXCEPT !.status = 200])
    /\ fresh' = TRUE
    /\ UNCHANGED <<hexgrid_file, roads_file, pc, req, job, fn>>

(***************************************************************************)
(* update_hexgrid_data (map.py:280-344) and the rebuild it runs            *)
(* (mapData_proccess.py:189-382).                                          *)
(***************************************************************************)
\* map.py:300-310: the rebuild is queued as a background task
UpdateBackground(r) ==
    /\ pc[r] = "idle"
    /\ job[BgWorker].st = "none"
    /\ job' = [job EXCEPT ![BgWorker] = [NoJob EXCEPT !.st = "queued"]]
    /\ answer' = Answered(NewReq("update_background", None),
                        [NoAnswer EXCEPT !.status = 200, !.data = Some("processing")])
    /\ UNCHANGED <<cacheVars, hexgrid_file, roads_file, pc, req, fresh, fn>>

\* map.py:311-323: the rebuild is handed to the executor and awaited
UpdateSubmit(r) ==
    /\ pc[r] = "idle"
    /\ job' = [job EXCEPT ![r] = [NoJob EXCEPT !.st = "queued"]]
    /\ req' = [req EXCEPT ![r] = NewReq("update", None)]
    /\ pc' = [pc EXCEPT ![r] = "updating"]
    /\ answer' = Silent
    /\ UNCHANGED <<cacheVars, hexgrid_file, roads_file, fresh, fn>>

\* the state a rebuild leaves its worker in: the executor keeps the outcome for the
\* awaiting handler, the background thread keeps nothing
JobEnded(w, st, result) ==
    IF w = BgWorker THEN NoJob ELSE [st |-> st, result |-> result]

\* mapData_proccess.py:204-237 raises (the buildings CSV cannot be read)
RebuildFail(w) ==
    /\ job[w].st = "queued"
    /\ job' = [job EXCEPT ![w] = JobEnded(w, "failed", NoHexagons)]
    /\ answer' = Silent
    /\ UNCHANGED <<cacheVars, hexgrid_file, roads_file, pc, req, fresh, fn>>

\* mapData_proccess.py:204-373: the grid is computed and the artifact opened for writing
RebuildOpen(w) ==
    /\ job[w].st = "queued"
    /\ job' = [job EXCEPT ![w].st = "writing"]
    /\ hexgrid_file' =
        [state |-> "partial", hexagons |-> NoHexagons,
         torn |-> \E o \in Worker : o # w /\ job[o].st = "writing"]
    /\ answer' = Silent
    /\ UNCHANGED <<cacheVars, roads_file, pc, req, fresh, fn>>

\* mapData_proccess.py:374-382: json.dump wrote the whole document (result) and the file
\* is closed; intact: writes of another rebuild to the same file left the document whole
RebuildClose(w, result, intact) ==
    /\ job[w].st = "writing"
    /\ job' = [job EXCEPT ![w] = JobEnded(w, "finished", result)]
    /\ hexgrid_file' =
        IF \E o \in Worker : o # w /\ job[o].st = "writing"
        THEN hexgrid_file
        ELSE IF hexgrid_file.torn /\ ~intact
        THEN [hexgrid_file EXCEPT !.torn = FALSE]
        ELSE CompleteFile(result)
    /\ answer' = Silent
    /\ UNCHANGED <<cacheVars, roads_file, pc, req, fresh, fn>>

\* the answer of map.py:326-338: the metadata of the document the rebuild returned,
\* which the model identifies with the document
update_response(hexgrid_data) == [NoAnswer EXCEPT !.status = 200, !.data = Some(hexgrid_data)]

\* a handler that answers without awaiting the executor
update_responds_early(r) ==
    /\ pc[r] = "updating"
    /\ answer' = Answered(req[r], update_response(job[r].result))
    /\ job' = [job EXCEPT ![r] = NoJob]
    /\ pc' = [pc EXCEPT ![r] = "idle"]
    /\ req' = [req EXCEPT ![r] = NoReq]
    /\ UNCHANGED <<cacheVars, hexgrid_file, roads_file, fresh, fn>>

\* map.py:325-344: the awaited rebuild returned or raised
UpdateRespond(r) ==
    /\ pc[r] = "updating"
    /\ job[r].st \in {"finished", "failed"}
    /\ answer' = Answered(req[r],
            IF job[r].st = "finished"
            THEN update_response(job[r].result)
            ELSE ErrorResp(500))
    /\ job' = [job EXCEPT ![r] = NoJob]
    /\ pc' = [pc EXCEPT ![r] = "idle"]
    /\ req' = [req EXCEPT ![r] = NoReq]
    /\ UNCHANGED <<cacheVars, hexgrid_file, roads_file, fresh, fn>>

Init ==
    /\ _road_risk_cache = None
    /\ _road_risk_cache_time = None
    /\ _hexgrid_cache = None
    /\ _roads_cache = None
    /\ hexgrid_file \in {AbsentFile} \cup {CompleteFile(h) : h \in GridArtifacts}
    /\ roads_file \in BOOLEAN
    /\ pc = [r \in Req |-> "idle"]
    /\ req = [r \in Req |-> NoReq]
    /\ answer = Silent
    /\ job = [w \in Worker |-> NoJob]
    /\ fresh = FALSE
    /\ fn = None

Next ==
    \/ \E r \in Req, l \in LevelInputs, u \in BOOLEAN : AnalyzeCached(r, l, u)
    \/ \E r \in Req, l \in LevelInputs, u \in BOOLEAN, f \in BOOLEAN : AnalyzeLoadError(r, l, u, f)
    \/ \E r \in Req, l \in LevelInputs, u \in BOOLEAN, f \in BOOLEAN : AnalyzeSubmit(r, l, u, f)
    \/ \E r \in Req : AnalyzeFinish(r)
    \/ \E r \in Req : clear_road_risk_cache(r)
    \/ \E r \in Req : UpdateBackground(r)
    \/ \E r \in Req : UpdateSubmit(r)
    \/ \E w \in Worker : RebuildFail(w)
    \/ \E w \in Worker : RebuildOpen(w)
    \/ \E w \in Worker, g \in GridArtifacts, i \in BOOLEAN : RebuildClose(w, g, i)
    \/ \E r \in Req : UpdateRespond(r)

Spec == Init /\ [][Next]_vars

\* A worker thread that has a rebuild to run runs it: the thread pool gives every
\* submitted callable a thread (map.py:302, 320), and the rebuild has no wait in it.
RebuildRuns(w) ==
    /\ WF_vars(RebuildFail(w) \/ RebuildOpen(w))
    /\ WF_vars(\E g \in GridArtifacts, i \in BOOLEAN : RebuildClose(w, g, i))

SpecLive == Spec /\ \A w \in Worker : RebuildRuns(w)

(***************************************************************************)
(* SpecFn: the pure functions applied to inputs drawn from bounded sets.   *)
(* fn = [kind, arg, out]; out is None until the function has been applied. *)
(***************************************************************************)
Thresholds == {108, 125, 144, 162}      \* map.py:174-195, in tenths

\* averaged values at, just below and just above every threshold, and the extremes
LevelValues ==
    {None}
    \cup {Some([num |-> t * 10 * d + e, den |-> d]) : t \in Thresholds, d \in 1..MaxDen, e \in {-1, 0, 1}}
    \cup {Some([num |-> 0, den |-> 1]), Some([num |-> 2176, den |-> 1])}

ValuePool == {1079, 1080, 1250, 1620}

FnMaps ==
    {[c \in {CellA, CellB} |-> IF c = CellA THEN a ELSE b] : a \in ValuePool, b \in ValuePool}
    \cup {[c \in {CellA} |-> a] : a \in ValuePool}
    \cup {NoHexagons}

\* a geometry of n points; every k-th point lies off the grid
Geometry(n, k) ==
    [i \in 1..n |-> IF i % k = 0 THEN PointOff ELSE IF i % 2 = 0 THEN PointB ELSE PointA]

RoadPool ==
    {[id |-> 1, name |-> "A", type |-> "primary", geometry |-> <<PointA, PointB>>],
     [id |-> 2, name |-> UnnamedRoad, type |-> "service", geometry |-> <<PointA>>],
     [id |-> 3, type |-> "service", geometry |-> <<PointA>>],
     [id |-> 4, name |-> "D", type |-> "primary"],
     [id |-> 5, name |-> "E", type |-> "primary", geometry |-> <<>>],
     [id |-> 6, name |-> "F", type |-> "primary", geometry |-> <<PointOff>>],
     [id |-> 7, name |-> "G", type |-> "primary", geometry |-> <<PointB>>],
     [id |-> 8, name |-> "H", type |-> "primary", geometry |-> <<PointA, PointB, PointB>>]}

RoadLists == UNION {[1..n -> RoadPool] : n \in 0..MaxRoads}

\* points strictly inside the bounding rectangle, on a lattice
ProbePoints ==
    {[lat |-> taipei_bounds.min_lat + ProbeMargin + ProbeStep * i,
      lng |-> taipei_bounds.min_lng + ProbeMargin + ProbeStep * j] :
        i \in 0..((taipei_bounds.max_lat - taipei_bounds.min_lat - 2 * ProbeMargin) \div ProbeStep),
        j \in 0..((taipei_bounds.max_lng - taipei_bounds.min_lng - 2 * ProbeMargin) \div ProbeStep)}

\* rows of the buildings table: two at PointA, one at PointB, one outside the
\* rectangle, one inside it where no cell is generated, one without a height
BuildingPool ==
    {[e97 |-> Some(305550), n97 |-> Some(2783325), height |-> Some(50)],
     [e97 |-> Some(305550), n97 |-> Some(2783325), height |-> Some(200)],
     [e97 |-> Some(305752), n97 |-> Some(2783325), height |-> Some(120)],
     [e97 |-> Some(305550), n97 |-> Some(2664000), height |-> Some(990)],
     [e97 |-> Some(290450), n97 |-> Some(2769505), height |-> Some(300)],
     [e97 |-> Some(305550), n97 |-> Some(2783325), height |-> None]}

BuildingTables == UNION {[1..n -> BuildingPool] : n \in 0..MaxBuildings}

\* station records of the weather API: two at one place, one farther away with a
\* numeric reading of -99, one nearer without a reading, one without coordinates,
\* one of another county
StationPool ==
    {[StationId |-> "S1", lat |-> center_lat + 1000, lng |-> center_lng + 100,
      CountyName |-> "Taipei", WindSpeed |-> Str("3.5")],
     [StationId |-> "S2", lat |-> center_lat + 1000, lng |-> center_lng + 100,
      CountyName |-> "Taipei", WindSpeed |-> Str("12.0")],
     [StationId |-> "S3", lat |-> center_lat - 5000, lng |-> center_lng + 100,
      CountyName |-> "NewTaipei", WindSpeed |-> Num(-990)],
     [StationId |-> "S4", lat |-> center_lat + 200, lng |-> center_lng + 100,
      CountyName |-> "Taipei", WindSpeed |-> Str("-99")],
     [StationId |-> "S5", lat |-> 0, lng |-> 0,
      CountyName |-> "Taipei", WindSpeed |-> Str("12.0")],
     [StationId |-> "S6", lat |-> center_lat + 100, lng |-> center_lng + 100,
      CountyName |-> "Taoyuan", WindSpeed |-> Str("12.0")]}

StationLists == UNION {[1..n -> StationPool] : n \in 0..MaxStations}

ReadingPool ==
    {Missing, Str(""), Str("-99"), Str("abc"), Str("0.0"), Str("3.5"), Str("12.0"),
     Str("-99.0"), Num(-990), Num(160)}

HeightPool == {0, 50, 80, 120, 200, 272, 400}

FnInputs ==
    {[kind |-> "level", arg |-> v, out |-> None] : v \in LevelValues}
    \cup {[kind |-> "sample", arg |-> [geometry |-> Geometry(n, k), h3_map |-> m], out |-> None] :
            n \in 1..MaxPoints, k \in 1..3,
            m \in {[c \in {CellA, CellB} |-> IF c = CellA THEN 1000 ELSE 1160],
                   [c \in {CellA} |-> 1000]}}
    \cup {[kind |-> "classify", arg |-> [roads |-> rs, h3_map |-> m], out |-> None] :
            rs \in RoadLists, m \in FnMaps}
    \cup {[kind |-> "probe", arg |-> p, out |-> None] : p \in ProbePoints}
    \cup {[kind |-> "grid", arg |-> [buildings_df |-> b, records |-> w], out |-> None] :
            b \in BuildingTables, w \in StationLists}
    \cup {[kind |-> "composite", arg |-> [readings |-> <<v1, v2>>, heights |-> <<h1, h2>>],
            out |-> None] :
            v1 \in ReadingPool, v2 \in ReadingPool, h1 \in HeightPool, h2 \in HeightPool}

ApplyRiskLevel ==
    /\ fn.kind = "level" /\ fn.out = None
    /\ fn' = [fn EXCEPT !.out = Some(_get_risk_level(fn.arg))]

\* sampled: the indices the loop of map.py:152 visits; level: the level map.py:228
\* gives the value
ApplyRoadValue ==
    /\ fn.kind = "sample" /\ fn.out = None
    /\ fn' = [fn EXCEPT !.out =
            Some([value |-> _calculate_road_value(fn.arg.geometry, fn.arg.h3_map),
                  level |-> _get_risk_level(
                                _calculate_road_value(fn.arg.geometry, fn.arg.h3_map)).level,
                  sampled |-> sampled_indices(Len(fn.arg.geometry))])]

ApplyClassify ==
    /\ fn.kind = "classify" /\ fn.out = None
    /\ LET out == _analyze_roads_task(fn.arg.h3_map, fn.arg.roads)
       IN  fn' = [fn EXCEPT !.out =
                Some([analyzed_roads |-> out.analyzed_roads,
                      stats |-> out.stats,
                      result_dict |-> _prepare_result_dict(out.analyzed_roads, out.stats)])]

\* the cell of a point and whether the grid builder generated it
ApplyProbe ==
    /\ fn.kind = "probe" /\ fn.out = None
    /\ LET cell == latlng_to_cell(fn.arg.lat, fn.arg.lng)
       IN  fn' = [fn EXCEPT !.out =
                Some([cell |-> cell, generated |-> in_taipei_hexagons(cell)])]

\* the rebuild applied to a buildings table and the station records of the API
ApplyGrid ==
    /\ fn.kind = "grid" /\ fn.out = None
    /\ fn' = [fn EXCEPT !.out = Some(update_hexgrid_data(fn.arg.buildings_df, fn.arg.records))]

\* the wind a station contributes for a raw reading (get_value, then
\* mapData_proccess.py:344) and the composite values for two readings and two heights
ApplyComposite ==
    /\ fn.kind = "composite" /\ fn.out = None
    /\ LET wind == [i \in 1..2 |->
                        wind_speed(Some([wind_speed |-> get_value(fn.arg.readings[i])]))]
       IN  fn' = [fn EXCEPT !.out =
                Some([wind |-> wind,
                      factor |-> [j \in 1..2 |-> height_factor(fn.arg.heights[j])],
                      value |-> [i \in 1..2 |-> [j \in 1..2 |->
                                    combined_value(wind[i], fn.arg.heights[j])]]])]

serverVars == <<cacheVars, hexgrid_file, roads_file, pc, req, answer, job, fresh>>

InitFn ==
    /\ _road_risk_cache = None
    /\ _road_risk_cache_time = None
    /\ _hexgrid_cache = None
    /\ _roads_cache = None
    /\ hexgrid_file = AbsentFile
    /\ roads_file = FALSE
    /\ pc = [r \in Req |-> "idle"]
    /\ req = [r \in Req |-> NoReq]
    /\ answer = Silent
    /\ job = [w \in Worker |-> NoJob]
    /\ fresh = FALSE
    /\ fn \in FnInputs

NextFn ==
    \/ ApplyRiskLevel /\ UNCHANGED serverVars
    \/ ApplyRoadValue /\ UNCHANGED serverVars
    \/ ApplyClassify /\ UNCHANGED serverVars
    \/ ApplyProbe /\ UNCHANGED serverVars
    \/ ApplyGrid /\ UNCHANGED serverVars
    \/ ApplyComposite /\ UNCHANGED serverVars

SpecFn == InitFn /\ [][NextFn]_vars

(***************************************************************************)
(* Properties of the caches and the request handlers, in Spec.             *)
(***************************************************************************)
InFlight == {r \in Req : pc[r] = "computing"}
InvalidLevel(risk_level) == risk_level # None /\ risk_level[1] \notin 1..5

\* C1: whenever another request can run, the risk-result cache is absent as a whole
\* (cache and time both None) or present as a whole (all of level_1..level_5, _stats
\* and _total_roads, and the time set).
C1_CacheWhole ==
    \/ _road_risk_cache = None /\ _road_risk_cache_time = None
    \/ /\ _road_risk_cache # None
       /\ _road_risk_cache_time # None
       /\ DOMAIN _road_risk_cache[1] =
            {"level_1", "level_2", "level_3", "level_4", "level_5", "_stats", "_total_roads"}

\* a populated cache is there while another recomputation is in flight
C1_Witness == _road_risk_cache # None /\ _road_risk_cache_time # None /\ InFlight # {}

\* C2: the first analyze_road_risk call after a clear, with both source files in place,
\* is not answered from the cache: it reads the artifacts and starts a recomputation.
C2_ClearForcesRecompute ==
    [][(fresh /\ ~fresh' /\ hexgrid_file.state = "complete" /\ roads_file)
        => /\ ~(answer'.op = "analyze" /\ answer'.cached)
           /\ \E r \in Req : /\ pc[r] = "idle"
                             /\ pc'[r] = "computing"
                             /\ req'[r].h3_map = hexgrid_file.hexagons]_vars

\* C3: at most one recomputation of the risk-result cache is in progress at any moment.
C3_SingleWriter == Cardinality(InFlight) <= 1

\* C4: a request whose risk_level is outside 1..5 starts no load and no analysis and
\* changes none of the four caches.
C4_RejectedBeforeComputation ==
    [][/\ \A r \in Req : pc'[r] = "computing" => ~InvalidLevel(req'[r].risk_level)
       /\ (answer'.op = "analyze" /\ InvalidLevel(answer'.risk_level))
            => UNCHANGED cacheVars]_vars

\* C5: a request whose risk_level is outside 1..5, and whose source data could be
\* loaded, is answered 400 (never 500, never success).
C5_InvalidLevelIs400 ==
    (answer.op = "analyze" /\ InvalidLevel(answer.risk_level) /\ answer.status # 404)
        => answer.status = 400

\* C10: when clear_road_risk_cache returns, all four caches are None and the answer is
\* a success, whatever the caches held and whatever is in flight.
C10_ClearEmptiesAll ==
    answer.op = "clear"
        => /\ _road_risk_cache = None
           /\ _road_risk_cache_time = None
           /\ _hexgrid_cache = None
           /\ _roads_cache = None
           /\ answer.status = 200

\* the clear returned while a recomputation, which had filled the source caches, runs
C10_Witness == answer.op = "clear" /\ answer.status = 200 /\ InFlight # {}

\* both source caches are populated: map.py:95 returns them without reading a file
SourcesCached == _hexgrid_cache # None /\ _roads_cache # None

\* C11: a request that needs a recomputation and the load, while the grid file is
\* absent or the roads file is absent and stays absent (its one fetch failed), is
\* answered 404 in the same step; a request answered 404 started no analysis and left
\* the risk-result cache and both source caches as they were.
C11_NotFoundFailsFast ==
    [][/\ (/\ answer'.op = "analyze" /\ pc' = pc
           /\ _road_risk_cache = None /\ ~SourcesCached
           /\ (hexgrid_file.state = "absent" \/ (~roads_file /\ ~roads_file')))
            => (answer'.status = 404 /\ UNCHANGED cacheVars)
       /\ (answer'.op = "analyze" /\ answer'.status = 404)
            => UNCHANGED <<cacheVars, hexgrid_file, pc, req, job>>]_vars

\* a request was answered 404 with the grid file in place: the roads fetch had failed
C11_Witness ==
    /\ answer.op = "analyze" /\ answer.status = 404
    /\ hexgrid_file.state = "complete" /\ ~roads_file
    /\ _road_risk_cache = None /\ ~SourcesCached

\* C12: update_hexgrid_data with background=false answers success only in a step in
\* which the rebuild it awaited has finished, and the answer carries what that rebuild
\* returned; with background=true it answers 'processing', and nothing else, in the
\* step that queues the rebuild, before the rebuild has started; the queued rebuild
\* then runs to its end with no further request.
C12_SyncAwaitsAsyncReturns ==
    /\ [][/\ (answer'.op = "update" /\ answer'.status = 200)
                => \E r \in Req : /\ pc[r] = "updating" /\ pc'[r] = "idle"
                                  /\ job[r].st = "finished"
                                  /\ answer'.data = Some(job[r].result)
          /\ (answer'.op = "update_background")
                => /\ answer'.status = 200 /\ answer'.data = Some("processing")
                   /\ job[BgWorker].st = "none" /\ job'[BgWorker].st = "queued"
                   /\ UNCHANGED <<hexgrid_file, pc, req>>]_vars
    /\ (job[BgWorker].st = "queued") ~> (job[BgWorker].st = "none")

\* a synchronous request got its answer while a background rebuild was writing
C12_Witness ==
    /\ answer.op = "update" /\ answer.status = 200
    /\ job[BgWorker].st = "writing"

\* what a snapshot holds for a risk_level filter: the buckets and the statistics
Served(snapshot, risk_level) ==
    [data |-> IF risk_level = None
              THEN Some([k \in LevelKeys |-> snapshot[k]])
              ELSE Some(snapshot[level_key(risk_level[1])]),
     statistics |-> Some([total_roads_analyzed |-> snapshot["_total_roads"],
                          counts |-> snapshot["_stats"]])]

\* C13: a request answered from the cache changes none of the four caches and its
\* answer holds, for its filter, the buckets and statistics of the cached snapshot;
\* the request that computed a snapshot answered, for its filter, with the buckets and
\* statistics of the snapshot it stored.  So both answer alike for the same filter.
C13_CacheHitServesSnapshot ==
    [][/\ (answer'.op = "analyze" /\ answer'.cached)
            => /\ UNCHANGED cacheVars
               /\ _road_risk_cache # None
               /\ answer'.status = 200
               /\ answer'.data = Served(_road_risk_cache[1], answer'.risk_level).data
               /\ answer'.statistics = Served(_road_risk_cache[1], answer'.risk_level).statistics
       /\ (answer'.op = "analyze" /\ answer'.status = 200 /\ ~answer'.cached)
            => /\ _road_risk_cache' # None
               /\ answer'.data = Served(_road_risk_cache'[1], answer'.risk_level).data
               /\ answer'.statistics = Served(_road_risk_cache'[1], answer'.risk_level).statistics]_vars

\* a filtered request was answered from a snapshot that holds a classified road
C13_Witness ==
    /\ answer.op = "analyze" /\ answer.cached /\ answer.risk_level # None
    /\ answer.data # None /\ answer.data[1].count > 0
    /\ _road_risk_cache # None

\* C14: with the risk-result cache populated, a use_cache=false request is not answered
\* from it and can start a recomputation, whose end replaces the risk-result cache by
\* the classification of the data the request loaded; a recomputation that starts with
\* both source caches populated works on the cached grid and roads, whatever the grid
\* file holds by then; and populated source caches change only by being cleared.
C14_SourceCacheOutlivesRebuild ==
    /\ [](\A r \in Req : (pc[r] = "idle" /\ _road_risk_cache # None) =>
            /\ ~ENABLED AnalyzeCached(r, None, FALSE)
            /\ SourcesCached => ENABLED AnalyzeSubmit(r, None, FALSE, TRUE))
    /\ [][\A r \in Req :
            /\ (pc[r] = "idle" /\ pc'[r] = "computing" /\ SourcesCached)
                => /\ req'[r].h3_map = _hexgrid_cache[1]
                   /\ req'[r].roads = _roads_cache[1]
                   /\ UNCHANGED <<_hexgrid_cache, _roads_cache>>
            /\ (pc[r] = "computing" /\ pc'[r] = "idle")
                => /\ _road_risk_cache' # None
                   /\ _road_risk_cache'[1]["_stats"] =
                        _analyze_roads_task(req[r].h3_map, req[r].roads).stats
            /\ (SourcesCached /\ <<_hexgrid_cache, _roads_cache>>' # <<_hexgrid_cache, _roads_cache>>)
                => (answer'.op = "clear" /\ _hexgrid_cache' = None /\ _roads_cache' = None)]_vars

\* with the risk-result cache populated and no rebuild running, a recomputation works on
\* cached cell values that differ from those of the complete grid file
C14_Witness ==
    \E r \in Req :
        /\ pc[r] = "computing" /\ _road_risk_cache # None /\ SourcesCached
        /\ req[r].h3_map = _hexgrid_cache[1]
        /\ hexgrid_file.state = "complete" /\ hexgrid_file.hexagons # req[r].h3_map
        /\ \A w \in Worker : job[w].st = "none"

(***************************************************************************)
(* Properties of the pure functions, in SpecFn.                            *)
(***************************************************************************)
Applied(kind) == fn # None /\ fn.kind = kind /\ fn.out # None

\* the thresholds, in tenths, that a value has reached
Reached(value) == {t \in Thresholds : value.num >= t * 10 * value.den}

\* C6: _get_risk_level gives a null value 'unknown' and a value v the level of its
\* closed-open band: 1 below 10.8, then one level more for each of 10.8, 12.5, 14.4
\* and 16.2 that v has reached, so a value at a threshold is in the higher band.
C6_ClosedOpenBands ==
    Applied("level") =>
        IF fn.arg = None
        THEN fn.out[1].level = unknown
        ELSE /\ fn.out[1].level \in 1..5
             /\ fn.out[1].level = 1 + Cardinality(Reached(fn.arg[1]))

\* a value of exactly 10.8, averaged over several points, was put in level 2
C6_Witness ==
    /\ Applied("level") /\ fn.arg # None
    /\ fn.arg[1].den > 1 /\ fn.arg[1].num = 1080 * fn.arg[1].den
    /\ fn.out[1].level = 2

Excluded(road) ==
    \/ "name" \notin DOMAIN road
    \/ road.name = UnnamedRoad
    \/ "geometry" \notin DOMAIN road
    \/ Len(road.geometry) = 0

ExcludedIn(roads) == {i \in 1..Len(roads) : Excluded(roads[i])}

StatsTotal(stats) ==
    stats[1] + stats[2] + stats[3] + stats[4] + stats[5] + stats[unknown]

\* C7: a road with the sentinel name, no name, no geometry or an empty geometry is in
\* no level bucket, is not among the analyzed roads and is counted in none of the six
\* statistics.
C7_ExcludedRoadsAbsent ==
    Applied("classify") =>
        LET roads == fn.arg.roads
            out == fn.out[1]
            excludedIds == {roads[i].id : i \in ExcludedIn(roads)}
            includedIds == {roads[i].id : i \in (1..Len(roads)) \ ExcludedIn(roads)}
            excludedNames == {roads[i].name : i \in {j \in ExcludedIn(roads) : "name" \in DOMAIN roads[j]}}
                                \ {roads[i].name : i \in (1..Len(roads)) \ ExcludedIn(roads)}
        IN  /\ \A k \in LevelKeys : \A i \in 1..Len(out.result_dict[k].roads) :
                    /\ out.result_dict[k].roads[i].name \notin excludedNames
                    /\ out.result_dict[k].roads[i].name # UnnamedRoad
            /\ \A i \in 1..Len(out.analyzed_roads) : out.analyzed_roads[i].id \notin excludedIds
            /\ StatsTotal(out.stats) = Len(roads) - Cardinality(ExcludedIn(roads))

\* a list with an excluded road and a classified road was analyzed
C7_Witness ==
    /\ Applied("classify")
    /\ ExcludedIn(fn.arg.roads) # {}
    /\ Len(fn.out[1].analyzed_roads) = 1
    /\ \E k \in LevelKeys : fn.out[1].result_dict[k].count = 1

\* C8: _calculate_road_value samples at most 10 points of a geometry.
C8_AtMostTenSamples ==
    Applied("sample") => Len(fn.out[1].sampled) <= 10

StrictlyInside(p) ==
    /\ taipei_bounds.min_lat < p.lat /\ p.lat < taipei_bounds.max_lat
    /\ taipei_bounds.min_lng < p.lng /\ p.lng < taipei_bounds.max_lng

\* C9: every point strictly inside the bounding rectangle maps to a generated cell.
C9_NoCoverageGaps ==
    (Applied("probe") /\ StrictlyInside(fn.arg)) => fn.out[1].generated

\* the positions of the analyzed roads that were given a level
WithLevel(analyzed_roads, level) ==
    {i \in 1..Len(analyzed_roads) : analyzed_roads[i].risk_level = level}

\* C15: a road is 'unknown' exactly when its value is null; the roads of level
\* 'unknown' are counted in the unknown statistic and are in none of the five level
\* buckets; every analyzed road has one of the six levels, so the six statistics add up
\* to the number of analyzed roads; and the count of each level bucket is the length of
\* its road list, the statistic of its level and the number of analyzed roads of that
\* level, whose names the list holds in order.
C15_UnknownCountedNotBucketed ==
    Applied("classify") =>
        LET out == fn.out[1]
            ar == out.analyzed_roads
            bucket(l) == out.result_dict[level_key(l)]
        IN  /\ \A i \in 1..Len(ar) :
                    /\ ar[i].risk_level \in Levels \cup {unknown}
                    /\ ar[i].risk_level = unknown <=> ar[i].combined_value = None
            /\ out.stats[unknown] = Cardinality(WithLevel(ar, unknown))
            /\ StatsTotal(out.stats) = Len(ar)
            /\ \A l \in Levels :
                    /\ bucket(l).count = Len(bucket(l).roads)
                    /\ bucket(l).count = out.stats[l]
                    /\ bucket(l).count = Cardinality(WithLevel(ar, l))
                    /\ \A j \in 1..Len(bucket(l).roads) :
                            \E i \in WithLevel(ar, l) :
                                /\ ar[i].name = bucket(l).roads[j].name
                                /\ Cardinality({m \in WithLevel(ar, l) : m < i}) = j - 1

\* a list with a road off the grid and a road on it: one unknown, one in a level bucket
C15_Witness ==
    /\ Applied("classify")
    /\ fn.out[1].stats[unknown] = 1
    /\ Len(fn.out[1].analyzed_roads) = 2
    /\ \E k \in LevelKeys : fn.out[1].result_dict[k].count = 1

\* the rows of the buildings table that are valid and whose point maps to the cell
RowsAt(buildings_df, cell) ==
    {i \in 1..Len(buildings_df) :
        /\ buildings_df[i].e97 # None /\ buildings_df[i].n97 # None
        /\ buildings_df[i].height # None
        /\ LET p == transform(buildings_df[i].e97[1], buildings_df[i].n97[1])
           IN  latlng_to_cell(p.lat, p.lng) = cell}

C17_NearestStationFirstWins ==
    Applied("grid") =>
        LET ws == fn.out[1].weather_stations
            hex_data == fn.out[1].hex_data
            valid == {i \in 1..Len(ws) : ws[i].latitude > 0 /\ ws[i].longitude > 0}
        IN  \A c \in DOMAIN hex_data :
                LET centre == cell_to_latlng(c)
                    dist(i) == _haversine_distance(centre.lat, centre.lng,
                                                   ws[i].latitude, ws[i].longitude)
                IN  /\ valid = {} => /\ hex_data[c].nearest_station = None
                                     /\ hex_data[c].wind_speed = 0
                    /\ valid # {} =>
                        \E i \in valid :
                            /\ hex_data[c].nearest_station = Some(ws[i])
                            /\ \A j \in valid : dist(i) <= dist(j)
                            /\ \A j \in valid : dist(j) = dist(i) => i <= j

\* two stations at one place with different readings: the first was matched
C17_Witness ==
    /\ Applied("grid")
    /\ Len(fn.out[1].weather_stations) = 2
    /\ fn.out[1].weather_stations[1].latitude = fn.out[1].weather_stations[2].latitude
    /\ fn.out[1].weather_stations[1].wind_speed # fn.out[1].weather_stations[2].wind_speed
    /\ fn.out[1].hex_data[CellA].nearest_station = Some(fn.out[1].weather_stations[1])

\* C18: for every reading the parser retains and every height, the composite value is
\* not negative, the height factor lies in [1, 1.6] (320..512 in 1/320), and the value
\* does not decrease when the wind speed or the height increases.
C18_CompositeMonotone ==
    Applied("composite") =>
        LET out == fn.out[1]
            h == fn.arg.heights
        IN  /\ \A i \in 1..2, j \in 1..2 : out.value[i][j] >= 0
            /\ \A j \in 1..2 : 320 <= out.factor[j] /\ out.factor[j] <= 512
            /\ \A j \in 1..2 : out.wind[1] <= out.wind[2] => out.value[1][j] <= out.value[2][j]
            /\ \A i \in 1..2 : h[1] <= h[2] => out.value[i][1] <= out.value[i][2]

\* the sum of the map values of the points at the positions S of a geometry
RECURSIVE ValueSum(_, _, _)
ValueSum(geometry, h3_map, S) ==
    IF S = {} THEN 0
    ELSE LET i == CHOOSE x \in S : TRUE
         IN  h3_map[latlng_to_cell(geometry[i].lat, geometry[i].lng)]
                + ValueSum(geometry, h3_map, S \ {i})

\* C19: with R the sampled points whose cell is a key of the value map,
\* _calculate_road_value returns null exactly when R is empty and otherwise the sum of
\* the map values over R divided by the size of R; a null value gets the level
\* 'unknown' and no other value does.
C19_AverageOverResolved ==
    Applied("sample") =>
        LET g == fn.arg.geometry
            m == fn.arg.h3_map
            out == fn.out[1]
            R == {out.sampled[k] + 1 : k \in {x \in 1..Len(out.sampled) :
                    latlng_to_cell(g[out.sampled[x] + 1].lat, g[out.sampled[x] + 1].lng)
                        \in DOMAIN m}}
        IN  /\ R = {} <=> out.value = None
            /\ R # {} => out.value = Some([num |-> ValueSum(g, m, R), den |-> Cardinality(R)])
            /\ out.value = None <=> out.level = unknown

\* some sampled points resolved and some did not: the average is over the resolved
C19_Witness ==
    /\ Applied("sample")
    /\ fn.out[1].value # None
    /\ fn.out[1].value[1].den >= 2
    /\ fn.out[1].value[1].den < Len(fn.out[1].sampled)

\* C20: for a geometry of n >= 1 points the sampled indices are 0, s, 2s, ... below n
\* for s = max(1, floor(n/10)): as many as fit, the k-th being (k-1)*s, starting at 0
\* and strictly increasing.
C20_ArithmeticStride ==
    Applied("sample") =>
        LET n == Len(fn.arg.geometry)
            s == IF n \div 10 >= 1 THEN n \div 10 ELSE 1
            idx == fn.out[1].sampled
        IN  /\ Len(idx) = (n + s - 1) \div s
            /\ \A k \in 1..Len(idx) : idx[k] = (k - 1) * s /\ idx[k] < n
            /\ idx[1] = 0
            /\ \A k \in 1..(Len(idx) - 1) : idx[k] < idx[k + 1]

\* a geometry of 20 points was sampled with stride 2
C20_Witness ==
    /\ Applied("sample")
    /\ Len(fn.arg.geometry) = 20
    /\ fn.out[1].sampled = <<0, 2, 4, 6, 8, 10, 12, 14, 16, 18>>

\* the level whose band a value in hundredths lies in
BandOf(hundredths) == 1 + Cardinality({t \in Thresholds : hundredths >= t * 10})

\* C23: for every analyzed road the reported combined_value is null exactly when the
\* reported risk_level is 'unknown', and otherwise the band of the reported (rounded)
\* combined_value is the reported risk_level.
C23_LevelMatchesReportedValue ==
    Applied("classify") =>
        \A i \in 1..Len(fn.out[1].analyzed_roads) :
            LET r == fn.out[1].analyzed_roads[i]
            IN  /\ r.combined_value = None <=> r.risk_level = unknown
                /\ r.combined_value # None => BandOf(r.combined_value[1]) = r.risk_level

(***************************************************************************)
(* Properties of requests that overlap a clear or a rebuild, in Spec.      *)
(***************************************************************************)
\* C21: no request is answered from the cache with a snapshot whose data was loaded
\* before the last clear.  Every load after a clear populates the source caches, and
\* only a clear empties them: a request answered from the cache while the source
\* caches are empty is served a snapshot computed from data loaded before that clear.
C21_NoStaleSnapshotAfterClear ==
    [][(answer'.op = "analyze" /\ answer'.cached) => SourcesCached]_vars

\* C22: a load that succeeds got one of the complete grid documents, and no request
\* with a valid filter fails for another reason than a missing artifact: the load
\* never reads a grid file that a rebuild has opened and not yet written whole.
C22_LoadSeesWholeGrid ==
    [][/\ \A r \in Req : (pc[r] = "idle" /\ pc'[r] = "computing")
                            => req'[r].h3_map \in GridArtifacts
       /\ (answer'.op = "analyze" /\ ~InvalidLevel(answer'.risk_level))
            => answer'.status \in {200, 404}]_vars

\* C24: in every successful answer of analyze_road_risk and in every cached snapshot,
\* the total of analyzed roads is the sum of the six counts.
C24_TotalIsSumOfCounts ==
    /\ (answer.op = "analyze" /\ answer.status = 200)
            => answer.statistics[1].total_roads_analyzed
                    = StatsTotal(answer.statistics[1].counts)
    /\ _road_risk_cache # None
            => _road_risk_cache[1]["_total_roads"] = StatsTotal(_road_risk_cache[1]["_stats"])

====
